---- MODULE Spec2Model ----
(***************************************************************************)
(* Orunmila (HNG-STAGE3): the Telex.im webhook pipeline.                   *)
(*                                                                         *)
(*   POST /webhook/telex  -> handle_telex_webhook  (app/api/webhook.py)    *)
(*   background task      -> process_message       (app/api/webhook.py)    *)
(*   messaging provider   -> TelexService          (services/telex_...)    *)
(*   AI provider          -> YorubaAgent           (services/yoruba_...)   *)
(*                                                                         *)
(* Python values are encoded as follows.  An Optional[T] is a sequence of  *)
(* at most one element (None == <<>>, Some(x) == <<x>>).  A message text   *)
(* is a sequence of one-character strings, so that str.strip() and         *)
(* str.lower() are computed and not assumed.  The long literal texts of    *)
(* the program (greeting, help, the two apologies) are named tokens.       *)
(***************************************************************************)
EXTENDS Naturals, Sequences, FiniteSets, TLC

VARIABLES
    telex_webhook_secret, \* settings.telex_webhook_secret (config.py)
    app,              \* lifespan of the FastAPI application (main.py)
    agent_instance,   \* yoruba_agent._agent_instance
    telex_service,    \* telex_service._telex_service
    requests,         \* the webhook requests received so far, in order
    responses,        \* the HTTP response returned for each request
    background_tasks, \* BackgroundTasks of each request: scheduled callables
    pm,               \* process_message of each request: its position and locals
    calls,            \* outbound calls made on behalf of each request, in order
    chat,             \* what the messaging provider accepted, in order
    ask,              \* POST /agent/ask: the request and what the provider will do
    answer,           \* POST /agent/ask: what get_response gave the route
    incoming_text,    \* process_message: a message text about to be classified
    branch,           \* process_message: the branch taken for incoming_text
    signature_call,   \* validate_webhook_signature: its payload and signature
    valid,            \* validate_webhook_signature: what it returned
    broadcast,        \* POST /messages/broadcast: its arguments, loop position and lists
    accessor_log      \* get_yoruba_agent / get_telex_service: instances built and returned

\* the variables of the function-level specifications
calls_apart == <<incoming_text, branch, signature_call, valid, broadcast>>

vars == <<telex_webhook_secret, app, agent_instance, telex_service, requests, responses,
          background_tasks, pm, calls, chat, ask, answer, calls_apart, accessor_log>>

(***************************************************************************)
(* Bounds of the model.                                                    *)
(***************************************************************************)
\* number of webhook deliveries the model follows
MaxEvents == 1

(***************************************************************************)
(* Optional values and small helpers.                                      *)
(***************************************************************************)
None == <<>>
Some(x) == <<x>>
IsNone(o) == o = <<>>
Get(o) == o[1]

\* a string field that is absent; Python treats both None and "" as false
NoStr == "<None>"
Falsy(s) == s \in {NoStr, ""}
Or(a, b) == IF Falsy(a) THEN b ELSE a

\* a required field that the payload does not carry, or carries as a non-string
Missing == "<missing>"
WrongShape == "<not-a-string>"

(***************************************************************************)
(* str.strip() and str.lower() on sequences of characters.                 *)
(***************************************************************************)
Whitespace == {" ", "\t", "\n"}

RECURSIVE LStrip(_)
LStrip(s) ==
    IF s = <<>> THEN <<>>
    ELSE IF Head(s) \in Whitespace THEN LStrip(Tail(s)) ELSE s

RECURSIVE RStrip(_)
RStrip(s) ==
    IF s = <<>> THEN <<>>
    ELSE IF s[Len(s)] \in Whitespace THEN RStrip(SubSeq(s, 1, Len(s) - 1)) ELSE s

Strip(s) == RStrip(LStrip(s))

LowerChar(c) ==
    CASE c = "A" -> "a" [] c = "C" -> "c" [] c = "D" -> "d" [] c = "E" -> "e"
      [] c = "G" -> "g" [] c = "H" -> "h" [] c = "I" -> "i" [] c = "L" -> "l"
      [] c = "N" -> "n" [] c = "O" -> "o" [] c = "P" -> "p" [] c = "R" -> "r"
      [] c = "S" -> "s" [] c = "T" -> "t" [] c = "U" -> "u" [] c = "W" -> "w"
      [] c = "Y" -> "y"
      [] OTHER -> c

Lower(s) == [i \in 1..Len(s) |-> LowerChar(s[i])]

(***************************************************************************)
(* schemas.py: EventType and the validation of a WebhookEvent.             *)
(***************************************************************************)
EventType == {"message", "message.delivered", "message.read",
              "user.joined", "user.left"}

ValidUser(u) == u.id \notin {Missing, WrongShape}

ValidMessage(m) ==
    /\ m.message_id \notin {Missing, WrongShape}
    /\ m.chat_id \notin {Missing, WrongShape}
    /\ ValidUser(m.from_user)

\* pydantic accepts the body as a WebhookEvent
ValidWebhookEvent(body) ==
    /\ body.event_id \notin {Missing, WrongShape}
    /\ body.event_type \in EventType
    /\ (IsNone(body.message) \/ ValidMessage(Get(body.message)))

(***************************************************************************)
(* The texts of the program.                                               *)
(***************************************************************************)
GreetingText == "Greeting: E kaabo! (Welcome!) ..."
HelpText == "Help: How to Ask Questions ..."
AgentApology == "Mo dupe (Thank you) for your question. I encountered an issue ..."
FallbackApology == "Mo toro gafara (I apologize). An error occurred ..."

GreetingTriggers ==
    { <<"/", "s", "t", "a", "r", "t">>,
      <<"h", "e", "l", "l", "o">>,
      <<"h", "i">>,
      <<"h", "e", "y">>,
      <<"g", "r", "e", "e", "t", "i", "n", "g", "s">> }

HelpTriggers ==
    { <<"/", "h", "e", "l", "p">>,
      <<"h", "e", "l", "p">>,
      <<"w", "h", "a", "t", " ", "c", "a", "n", " ", "y", "o", "u", " ", "d", "o">> }

\* the triggers matched as prefixes of the text (str.startswith)
ClassifyByPrefix(message_text) ==
    LET StartsWith(w) == /\ Len(w) <= Len(message_text)
                         /\ SubSeq(Lower(message_text), 1, Len(w)) = w
    IN  IF \E w \in GreetingTriggers : StartsWith(w) THEN "Greeting"
        ELSE IF \E w \in HelpTriggers : StartsWith(w) THEN "Help"
        ELSE "General"

\* the branch process_message takes on the stripped text
Classify(message_text) ==
    IF Lower(message_text) \in GreetingTriggers THEN "Greeting"
    ELSE IF Lower(message_text) \in HelpTriggers THEN "Help"
    ELSE "General"

(***************************************************************************)
(* The requests the model sends to POST /webhook/telex.                    *)
(***************************************************************************)
User(first_name, username) ==
    [id |-> "U1", username |-> username, first_name |-> first_name,
     language_code |-> NoStr]

Message(chat_id, from_user, text) ==
    [message_id |-> "M1", from_user |-> from_user, chat_id |-> chat_id,
     text |-> text]

Event(event_id, event_type, message) ==
    [event_id |-> event_id, event_type |-> event_type, message |-> message]

Ade == User("Ade", "ade01")

TxtQuestion == Some(<<"W", "h", "o", "?">>)
TxtHi == Some(<<"h", "i">>)
TxtHello == Some(<<" ", " ", "H", "E", "L", "L", "O", " ">>)
TxtWhatCanYouDo ==
    Some(<<"W", "h", "a", "t", " ", "c", "a", "n", " ", "y", "o", "u", " ", "d", "o">>)
TxtEmpty == Some(<<>>)
TxtBlank == Some(<<" ", "\t">>)

Bodies ==
    { Event("E1", "message", Some(Message("C1", Ade, t))) :
        t \in {TxtQuestion, TxtHi, TxtHello, TxtWhatCanYouDo, TxtEmpty, None} }
    \cup
    { Event("E1", "message", Some(Message("C2", User(NoStr, "ade01"), TxtQuestion))),
      Event("E1", "message", Some(Message("C1", User(NoStr, NoStr), TxtBlank))),
      Event("E1", "message", Some(Message("C1", User("", "ade01"), TxtQuestion))),
      Event("E1", "message.read", Some(Message("C1", Ade, TxtQuestion))),
      Event("E1", "reaction.added", None),
      Event(Missing, "message", Some(Message("C1", Ade, TxtQuestion))) }
    \cup
    { Event("E1", t, None) : t \in EventType }

\* hmac.new(key, payload, sha256).hexdigest(): the digest stands for its preimage
HmacSha256(key, payload) == <<key, payload>>

\* the secret the sender signs with, and a signature made without it
SenderSecret == "s3cr3t"
Signed(body) == HmacSha256(SenderSecret, body)
Forged(body) == HmacSha256("guess", body)

Requests ==
    { [body |-> b, signature |-> Signed(b)] : b \in Bodies }
    \cup
    { [body |-> b, signature |-> Forged(b)] :
        b \in { Event("E1", "message", Some(Message("C1", Ade, TxtHi))),
                Event("E1", "user.joined", None) } }

\* settings.telex_webhook_secret: empty by default, or the sender's secret
Secrets == {"", SenderSecret}

(***************************************************************************)
(* yoruba_agent.py: YorubaAgent.                                           *)
(***************************************************************************)
ProviderAnswer == "Oduduwa founded Ile-Ife."

\* the object agent.run() returns: the attribute that carries the answer is
\* 'output', 'data' or 'content' according to the library version, or none
RunResult(attr) ==
    [output |-> IF attr = "output" THEN Some(ProviderAnswer) ELSE None,
     data |-> IF attr = "data" THEN Some(ProviderAnswer) ELSE None,
     content |-> IF attr = "content" THEN Some(ProviderAnswer) ELSE None]

\* str(result) of an object that has none of the three attributes
StrOfResult == "<AgentRunResult object>"

\* what awaiting agent.run(prompt) can do: raise, or return a result
ProviderRuns ==
    { [raised |-> TRUE, result |-> RunResult("none")] }
    \cup { [raised |-> FALSE, result |-> RunResult(a)] :
             a \in {"output", "data", "content", "none"} }

\* the user_context built from first_name alone
UserContextWithoutUsername(user) ==
    Some([name |-> Or(user.first_name, "friend"),
          user_id |-> user.id,
          language |-> user.language_code])

\* the user_context process_message builds
UserContext(user) ==
    Some([name |-> Or(user.first_name, Or(user.username, "friend")),
          user_id |-> user.id,
          language |-> user.language_code])

\* enhanced_question
EnhancedQuestion(question, user_context) ==
    IF IsNone(user_context) THEN <<question>>
    ELSE <<"Question from ", Get(user_context).name, ": ", question>>

\* the text taken from a returned result
ExtractText(result) ==
    IF ~IsNone(result.output) THEN Get(result.output)
    ELSE IF ~IsNone(result.data) THEN Get(result.data)
    ELSE IF ~IsNone(result.content) THEN Get(result.content)
    ELSE StrOfResult

\* get_response without its except clause: a provider failure reaches the caller
get_response_propagating(question, user_context, run) ==
    IF run.raised THEN [raised |-> TRUE, value |-> NoStr]
    ELSE [raised |-> FALSE, value |-> ExtractText(run.result)]

\* YorubaAgent.get_response, given what the provider call did
get_response(question, user_context, run) ==
    IF run.raised THEN [raised |-> FALSE, value |-> AgentApology]
    ELSE [raised |-> FALSE, value |-> ExtractText(run.result)]

get_greeting_response == GreetingText
get_help_response == HelpText

(***************************************************************************)
(* telex_service.py: TelexService.                                         *)
(***************************************************************************)
\* what POST {api_url}/messages can do, as send_message sees it
SendOutcomes == {"ok", "http_status_error", "network_error", "bad_response_body"}

\* the provider accepted the message (2xx): it is in the chat
Accepted(outcome) == outcome \in {"ok", "bad_response_body"}

\* send_message / send_text_message raise to their caller
SendRaises(outcome) == outcome # "ok"

\* what POST {api_url}/actions can do
TypingOutcomes == {"ok", "non_success_status", "network_error"}

\* send_typing_action without its except clause
TypingRaisesOnError(outcome) == outcome = "network_error"

\* send_typing_action raises to its caller
TypingRaises(outcome) == FALSE

\* signatures on which hmac.compare_digest raises TypeError: the header value
\* None, and a str with a character outside ASCII; "" is an ordinary str
SigNone == <<"<None>">>
SigNonAscii == <<"<non-ascii>">>
SigEmpty == <<>>
DigestRaises(signature) == signature \in {SigNone, SigNonAscii}

\* hmac.compare_digest(a, b), b being a hexdigest
compare_digest(a, b) == [raised |-> DigestRaises(a), value |-> a = b]

\* the function without its "if not settings.telex_webhook_secret" shortcut
validate_webhook_signature_strict(secret, payload, signature) ==
    LET compared == compare_digest(signature, HmacSha256(secret, payload))
    IN  IF compared.raised THEN FALSE ELSE compared.value

\* TelexService.validate_webhook_signature
validate_webhook_signature(secret, payload, signature) ==
    IF secret = "" THEN TRUE
    ELSE LET compared == compare_digest(signature, HmacSha256(secret, payload))
         IN  IF compared.raised THEN FALSE ELSE compared.value

(***************************************************************************)
(* webhook.py: handle_telex_webhook.                                       *)
(***************************************************************************)
\* a message is a sequence of its pieces (an f-string's parts)
ActionResponse(message) ==
    [status |-> 200, success |-> TRUE, error |-> "", message |-> message]

\* ErrorResponse(...).model_dump(): the Python type of each value of the dict;
\* model_dump() in its default mode leaves timestamp a datetime object
ErrorResponseDump ==
    [error |-> "str", message |-> "str", details |-> "dict", timestamp |-> "datetime"]

\* json.dumps, as JSONResponse.render calls it (no "default" hook), raises
\* TypeError on a value of any other type
JsonTypes == {"str", "int", "float", "bool", "NoneType", "dict", "list"}
JsonSerializable(content) == \A f \in DOMAIN content : content[f] \in JsonTypes

\* JSONResponse(status_code, content): rendered in the constructor
JSONResponse(status_code, error, message, content) ==
    [raised |-> ~JsonSerializable(content),
     response |-> [status |-> status_code, success |-> FALSE, error |-> error,
                   message |-> message]]

\* main.py: the two exception handlers
validation_exception_handler ==
    JSONResponse(422, "ValidationError", <<"Request validation failed">>, ErrorResponseDump)
general_exception_handler ==
    JSONResponse(500, "InternalServerError", <<"An unexpected error occurred">>,
                 ErrorResponseDump)

\* what the server sends when the application raised: a bare 500 in plain text
ServerErrorResponse ==
    [status |-> 500, success |-> FALSE, error |-> "", message |-> <<"Internal Server Error">>]

\* a request that fails validation: validation_exception_handler; an exception
\* it raises goes to general_exception_handler, and one that raises to the server
ValidationErrorResponse ==
    IF ~validation_exception_handler.raised THEN validation_exception_handler.response
    ELSE IF ~general_exception_handler.raised THEN general_exception_handler.response
    ELSE ServerErrorResponse

\* the handler testing only event.message: any event with a message is processed
handle_telex_webhook_any_type(event) ==
    IF ~IsNone(event.message)
    THEN [response |-> ActionResponse(<<"Message received and being processed">>),
          tasks |-> <<"process_message">>]
    ELSE [response |-> ActionResponse(<<"Event type not handled">>), tasks |-> <<>>]

\* the handler without its add_task: the message is acknowledged and dropped
handle_telex_webhook_unscheduled(event) ==
    IF event.event_type = "message" /\ ~IsNone(event.message)
    THEN [response |-> ActionResponse(<<"Message received and being processed">>),
          tasks |-> <<>>]
    ELSE [response |-> ActionResponse(<<"Event type not handled">>), tasks |-> <<>>]

\* the body of the handler: the response it returns and the tasks it schedules
handle_telex_webhook(event) ==
    IF event.event_type = "message" /\ ~IsNone(event.message)
    THEN [response |-> ActionResponse(<<"Message received and being processed">>),
          tasks |-> <<"process_message">>]
    ELSE IF event.event_type \in {"message.delivered", "message.read"}
    THEN [response |-> ActionResponse(<<"Event ", event.event_type, " acknowledged">>), tasks |-> <<>>]
    ELSE IF event.event_type \in {"user.joined", "user.left"}
    THEN [response |-> ActionResponse(<<"Event ", event.event_type, " acknowledged">>), tasks |-> <<>>]
    ELSE [response |-> ActionResponse(<<"Event type not handled">>), tasks |-> <<>>]

\* the route: the body is validated as a WebhookEvent before the handler runs
Route(req) ==
    IF ValidWebhookEvent(req.body) THEN handle_telex_webhook(req.body)
    ELSE [response |-> ValidationErrorResponse, tasks |-> <<>>]

(***************************************************************************)
(* The state machine.                                                      *)
(***************************************************************************)
Received == 1..Len(requests)

\* the parsed event of request e, its message and the locals of process_message
EventOf(e) == requests[e].body
MessageOf(e) == Get(EventOf(e).message)
ChatIdOf(e) == MessageOf(e).chat_id
MessageTextOf(e) == Strip(Get(MessageOf(e).text))

\* one outbound call, as recorded in calls[e]: what was asked (op, and for a
\* sendText the call site), what the provider did (accepted; for the AI provider
\* detail says how agent.run ended) and whether the call raised to its caller.
\* For an AI call, text is the string get_response returned.
Call(op, site, chat_id, text, reply_to, prompt, detail, accepted, raised) ==
    [op |-> op, site |-> site, chat_id |-> chat_id, text |-> text,
     reply_to |-> reply_to, prompt |-> prompt, detail |-> detail,
     accepted |-> accepted, raised |-> raised]

TypingCall(e, outcome) ==
    Call("typing", "", ChatIdOf(e), NoStr, NoStr, <<>>, "",
         outcome = "ok", TypingRaises(outcome))

AiCall(prompt, run, got) ==
    Call("ai", "", NoStr, got.value, NoStr, prompt,
         IF run.raised THEN "raise"
         ELSE IF ExtractText(run.result) = StrOfResult THEN "no_answer"
         ELSE "answer",
         ~run.raised, got.raised)

\* send_text_message(chat_id, text, reply_to_message_id)
SendTextCall(site, chat_id, text, reply_to, outcome) ==
    Call("sendText", site, chat_id, text, reply_to, <<>>, "",
         Accepted(outcome), SendRaises(outcome))

\* a message the messaging provider accepted
Delivery(e, call) ==
    [ev |-> e, site |-> call.site, chat_id |-> call.chat_id, text |-> call.text,
     reply_to |-> call.reply_to]

\* the fallback send without the try around it
FallbackPropagatesFailure(outcome) == SendRaises(outcome)

\* the bare "except: pass" around the fallback send lets nothing out
FallbackPropagates(outcome) == FALSE

\* an instance of one of the two client classes; id tells instances apart
Instance(class, id) == <<class, id>>

\* an accessor that builds a new client on every call
get_or_create_always(instance, class, built) ==
    [instance |-> Some(Instance(class, built + 1)), built |-> built + 1]

\* get_yoruba_agent / get_telex_service: the module-level handle is built on the
\* first call and returned as it is afterwards; built counts the constructions
get_or_create(instance, class, built) ==
    IF IsNone(instance)
    THEN [instance |-> Some(Instance(class, built + 1)), built |-> built + 1]
    ELSE [instance |-> instance, built |-> built]

\* no accessor was called yet
NoAccess == [built_agent |-> 0, built_telex |-> 0, got_agent |-> {}, got_telex |-> {}]

\* the log after an accessor call that returned
LogAgent(log, a) ==
    [log EXCEPT !.built_agent = a.built, !.got_agent = @ \cup {Get(a.instance)}]
LogTelex(log, t) ==
    [log EXCEPT !.built_telex = t.built, !.got_telex = @ \cup {Get(t.instance)}]

\* get_yoruba_agent() and then get_telex_service(), both returning
BothHandles ==
    LET a == get_or_create(agent_instance, "YorubaAgent", accessor_log.built_agent)
        t == get_or_create(telex_service, "TelexService", accessor_log.built_telex)
    IN  /\ agent_instance' = a.instance
        /\ telex_service' = t.instance
        /\ accessor_log' = LogTelex(LogAgent(accessor_log, a), t)

\* get_telex_service() alone
TelexHandle ==
    LET t == get_or_create(telex_service, "TelexService", accessor_log.built_telex)
    IN  /\ telex_service' = t.instance
        /\ accessor_log' = LogTelex(accessor_log, t)

Init ==
    /\ telex_webhook_secret \in Secrets
    /\ app = "init"
    /\ agent_instance = None
    /\ telex_service = None
    /\ requests = <<>>
    /\ responses = <<>>
    /\ background_tasks = <<>>
    /\ pm = <<>>
    /\ calls = <<>>
    /\ chat = <<>>
    /\ ask = None
    /\ answer = None
    /\ incoming_text = None
    /\ branch = None
    /\ signature_call = None
    /\ valid = None
    /\ accessor_log = NoAccess
    /\ broadcast = None

\* main.py lifespan: both handles are built before any request is served; the
\* constructor of YorubaAgent can raise, and then the application does not start
Lifespan ==
    /\ app = "init"
    /\ requests = <<>>
    /\ \E constructed \in BOOLEAN :
        IF constructed
        THEN /\ BothHandles
             /\ app' = "started"
        ELSE /\ app' = "failed"
             /\ UNCHANGED <<agent_instance, telex_service, accessor_log>>
    /\ UNCHANGED <<calls_apart, ask, answer, telex_webhook_secret, requests, responses, background_tasks,
                   pm, calls, chat>>

\* the task add_task puts in BackgroundTasks: process_message, not yet started
ScheduledTask == [pc |-> "scheduled", intent |-> "", response_text |-> NoStr]

\* a request for which nothing was scheduled
NoTask == [pc |-> "none", intent |-> "", response_text |-> NoStr]

\* the route remembering event ids: a delivery whose event_id was seen before is
\* acknowledged and not processed again
ReceiveOnce(req) ==
    LET seen == \E e \in 1..Len(requests) : requests[e].body.event_id = req.body.event_id
        tasks == IF seen THEN <<>> ELSE Route(req).tasks
    IN  /\ app # "failed"
        /\ requests' = Append(requests, req)
        /\ responses' = Append(responses, Route(req).response)
        /\ background_tasks' = Append(background_tasks, tasks)
        /\ pm' = Append(pm, IF tasks = <<>> THEN NoTask ELSE ScheduledTask)
        /\ calls' = Append(calls, <<>>)
        /\ UNCHANGED <<accessor_log, calls_apart, ask, answer, telex_webhook_secret, app,
                       agent_instance, telex_service, chat>>

\* POST /webhook/telex: validation, the handler, and the response; the tasks the
\* handler added start only after the response has been sent
Receive(req) ==
    /\ app # "failed"
    /\ requests' = Append(requests, req)
    /\ responses' = Append(responses, Route(req).response)
    /\ background_tasks' = Append(background_tasks, Route(req).tasks)
    /\ pm' = Append(pm, IF Route(req).tasks = <<>> THEN NoTask ELSE ScheduledTask)
    /\ calls' = Append(calls, <<>>)
    /\ UNCHANGED <<accessor_log, calls_apart, ask, answer, telex_webhook_secret, app, agent_instance, telex_service, chat>>

\* a delivery, while the model follows fewer than MaxEvents of them
PostWebhook(req) ==
    /\ Len(requests) < MaxEvents
    /\ Receive(req)

\* a background task of request e may run: it was added and the response is out
Runnable(e) ==
    /\ e \in Received
    /\ e <= Len(responses)
    /\ "process_message" \in {background_tasks[e][i] : i \in 1..Len(background_tasks[e])}

\* process_message, lines 89-106: the text check, the two service handles, and
\* the typing indicator being requested
Start(e) ==
    /\ Runnable(e)
    /\ pm[e].pc = "scheduled"
    /\ IF IsNone(EventOf(e).message)
          \/ IsNone(MessageOf(e).text)
          \/ Get(MessageOf(e).text) = <<>>
       THEN /\ pm' = [pm EXCEPT ![e].pc = "done"]
            /\ UNCHANGED <<agent_instance, telex_service, accessor_log>>
       ELSE \E constructed \in BOOLEAN :
            IF ~IsNone(agent_instance) \/ constructed
            THEN /\ BothHandles
                 /\ pm' = [pm EXCEPT ![e].pc = "typing"]
            ELSE /\ pm' = [pm EXCEPT ![e].pc = "fallback"]
                 /\ UNCHANGED <<agent_instance, telex_service, accessor_log>>
    /\ UNCHANGED <<calls_apart, ask, answer, telex_webhook_secret, app, requests, responses,
                   background_tasks, calls, chat>>

\* send_typing_action returns
Typing(e, outcome) ==
    /\ pm[e].pc = "typing"
    /\ calls' = [calls EXCEPT ![e] = Append(@, TypingCall(e, outcome))]
    /\ pm' = [pm EXCEPT ![e].pc = IF TypingRaises(outcome) THEN "fallback" ELSE "resolve"]
    /\ UNCHANGED <<accessor_log, calls_apart, ask, answer, telex_webhook_secret, app, agent_instance, telex_service,
                   requests, responses, background_tasks, chat>>

\* lines 108-124: the reply text, from the canned texts or from the AI provider
Resolve(e) ==
    /\ pm[e].pc = "resolve"
    /\ LET intent == Classify(MessageTextOf(e)) IN
       IF intent = "Greeting"
       THEN /\ pm' = [pm EXCEPT ![e] = [pc |-> "send", intent |-> intent,
                                        response_text |-> get_greeting_response]]
            /\ UNCHANGED calls
       ELSE IF intent = "Help"
       THEN /\ pm' = [pm EXCEPT ![e] = [pc |-> "send", intent |-> intent,
                                        response_text |-> get_help_response]]
            /\ UNCHANGED calls
       ELSE \E run \in ProviderRuns :
            LET ctx == UserContext(MessageOf(e).from_user)
                got == get_response(MessageTextOf(e), ctx, run)
            IN /\ calls' = [calls EXCEPT ![e] =
                     Append(@, AiCall(EnhancedQuestion(MessageTextOf(e), ctx), run, got))]
               /\ pm' = [pm EXCEPT ![e] =
                          IF got.raised
                          THEN [pc |-> "fallback", intent |-> intent,
                                response_text |-> NoStr]
                          ELSE [pc |-> "send", intent |-> intent,
                                response_text |-> got.value]]
    /\ UNCHANGED <<accessor_log, calls_apart, ask, answer, telex_webhook_secret, app, agent_instance, telex_service,
                   requests, responses, background_tasks, chat>>

\* yoruba_agent.py:114: "await self.agent.run(...)" is given no timeout, so for
\* a provider that never responds the await never returns and never raises
AwaitAgentRun(e) ==
    /\ pm[e].pc = "resolve"
    /\ Classify(MessageTextOf(e)) = "General"
    /\ pm' = [pm EXCEPT ![e] = [pc |-> "awaiting_agent_run", intent |-> "General",
                                response_text |-> NoStr]]
    /\ UNCHANGED <<accessor_log, calls_apart, ask, answer, telex_webhook_secret, app, agent_instance,
                   telex_service, requests, responses, background_tasks, calls, chat>>

\* the main reply held back until every earlier request's sequence has ended
SendInOrder(e, outcome) ==
    /\ pm[e].pc = "send"
    /\ \A earlier \in 1..(e - 1) : pm[earlier].pc \in {"none", "done"}
    /\ LET call == SendTextCall("main", ChatIdOf(e), pm[e].response_text,
                                MessageOf(e).message_id, outcome)
       IN /\ calls' = [calls EXCEPT ![e] = Append(@, call)]
          /\ chat' = IF Accepted(outcome) THEN Append(chat, Delivery(e, call)) ELSE chat
    /\ pm' = [pm EXCEPT ![e].pc = IF SendRaises(outcome) THEN "fallback" ELSE "done"]
    /\ UNCHANGED <<accessor_log, calls_apart, ask, answer, telex_webhook_secret, app,
                   agent_instance, telex_service, requests, responses, background_tasks>>

\* lines 126-133: the main reply
Send(e, outcome) ==
    /\ pm[e].pc = "send"
    /\ LET call == SendTextCall("main", ChatIdOf(e), pm[e].response_text,
                                MessageOf(e).message_id, outcome)
       IN /\ calls' = [calls EXCEPT ![e] = Append(@, call)]
          /\ chat' = IF Accepted(outcome) THEN Append(chat, Delivery(e, call)) ELSE chat
    /\ pm' = [pm EXCEPT ![e].pc = IF SendRaises(outcome) THEN "fallback" ELSE "done"]
    /\ UNCHANGED <<accessor_log, calls_apart, ask, answer, telex_webhook_secret, app, agent_instance, telex_service,
                   requests, responses, background_tasks>>

\* the exception handler retrying the apology until it is sent
FallbackRetrying(e, outcome) ==
    /\ pm[e].pc = "fallback"
    /\ TelexHandle
    /\ LET call == SendTextCall("fallback", ChatIdOf(e), FallbackApology,
                                MessageOf(e).message_id, outcome)
       IN /\ calls' = [calls EXCEPT ![e] = Append(@, call)]
          /\ chat' = IF Accepted(outcome) THEN Append(chat, Delivery(e, call)) ELSE chat
    /\ pm' = [pm EXCEPT ![e].pc = IF SendRaises(outcome) THEN "fallback" ELSE "done"]
    /\ UNCHANGED <<calls_apart, ask, answer, telex_webhook_secret, app, agent_instance,
                   requests, responses, background_tasks>>

\* lines 135-146: the handler of any exception sends the apology, once
Fallback(e, outcome) ==
    /\ pm[e].pc = "fallback"
    /\ TelexHandle
    /\ LET call == SendTextCall("fallback", ChatIdOf(e), FallbackApology,
                                MessageOf(e).message_id, outcome)
       IN /\ calls' = [calls EXCEPT ![e] = Append(@, call)]
          /\ chat' = IF Accepted(outcome) THEN Append(chat, Delivery(e, call)) ELSE chat
    /\ pm' = [pm EXCEPT ![e].pc = IF FallbackPropagates(outcome) THEN "raised" ELSE "done"]
    /\ UNCHANGED <<calls_apart, ask, answer, telex_webhook_secret, app, agent_instance,
                   requests, responses, background_tasks>>

Next ==
    \/ Lifespan
    \/ \E req \in Requests : PostWebhook(req)
    \/ \E e \in Received : Start(e)
    \/ \E e \in Received, outcome \in TypingOutcomes : Typing(e, outcome)
    \/ \E e \in Received : Resolve(e)
    \/ \E e \in Received : AwaitAgentRun(e)
    \/ \E e \in Received, outcome \in SendOutcomes : Send(e, outcome)
    \/ \E e \in Received, outcome \in SendOutcomes : Fallback(e, outcome)

Spec == Init /\ [][Next]_vars

(***************************************************************************)
(* agent.py: POST /agent/ask, the direct call into get_response, with or   *)
(* without a user context.                                                 *)
(***************************************************************************)
TxtHiThere == Some(<<"h", "i", " ", "t", "h", "e", "r", "e">>)

\* QuestionRequest: question, user_name and user_id; run is what the provider
\* will do with the prompt
AskRequests ==
    [question : {Get(TxtQuestion), Get(TxtHi), Get(TxtHiThere), Get(TxtEmpty)},
     user_name : {NoStr, "", "Ade"},
     user_id : {NoStr, "U1"},
     run : ProviderRuns]

\* the user_context ask_question prepares
AskContext(request) ==
    IF ~Falsy(request.user_name) \/ ~Falsy(request.user_id)
    THEN Some([name |-> Or(request.user_name, "friend"),
               user_id |-> request.user_id,
               language |-> NoStr])
    ELSE None

InitAgent ==
    /\ telex_webhook_secret = ""
    /\ app = "started"
    /\ agent_instance = Some(Instance("YorubaAgent", 1))
    /\ telex_service = Some(Instance("TelexService", 1))
    /\ requests = <<>>
    /\ responses = <<>>
    /\ background_tasks = <<>>
    /\ pm = <<>>
    /\ calls = <<>>
    /\ chat = <<>>
    /\ ask \in {Some(r) : r \in AskRequests}
    /\ answer = None
    /\ incoming_text = None
    /\ branch = None
    /\ signature_call = None
    /\ valid = None
    /\ accessor_log = NoAccess
    /\ broadcast = None

\* ask_question: the context, then get_response
AskQuestion ==
    /\ ~IsNone(ask)
    /\ IsNone(answer)
    /\ LET ctx == AskContext(Get(ask))
           got == get_response(Get(ask).question, ctx, Get(ask).run)
       IN answer' = Some(AiCall(EnhancedQuestion(Get(ask).question, ctx),
                                Get(ask).run, got))
    /\ UNCHANGED <<accessor_log, calls_apart, ask, telex_webhook_secret, app, agent_instance, telex_service,
                   requests, responses, background_tasks, pm, calls, chat>>

NextAgent == AskQuestion

SpecAgent == InitAgent /\ [][NextAgent]_vars

(***************************************************************************)
(* Vocabulary of the properties.                                           *)
(***************************************************************************)
\* request e parsed as a MESSAGE event that carries a message
IsMessageEvent(e) ==
    /\ ValidWebhookEvent(EventOf(e))
    /\ EventOf(e).event_type = "message"
    /\ ~IsNone(EventOf(e).message)

\* the outbound calls of one kind made for request e, in order
CallsOf(e, op) == SelectSeq(calls[e], LAMBDA c : c.op = op)
SendsAt(e, site) == SelectSeq(calls[e], LAMBDA c : c.op = "sendText" /\ c.site = site)

ProcessingAck == ActionResponse(<<"Message received and being processed">>)

\* C1: a MESSAGE event with a message gets exactly one background task and the
\* success acknowledgment; the task has made no outbound call when the response
\* is returned (nothing of it runs before the response exists), and the
\* acknowledgment stays what it was whatever the task does later.
C1_AckWithoutWaiting ==
    \A e \in Received :
        IsMessageEvent(e) =>
            /\ background_tasks[e] = <<"process_message">>
            /\ e <= Len(responses)
            /\ responses[e] = ProcessingAck
            /\ (pm[e].pc = "scheduled" => calls[e] = <<>>)

\* C1 witness: the task of an acknowledged event ran and failed (typing
\* indicator failed, main send failed, apology delivered), and the response is
\* still the acknowledgment
C1_Witness ==
    \E e \in Received :
        /\ IsMessageEvent(e)
        /\ background_tasks[e] = <<"process_message">>
        /\ pm[e].pc = "done"
        /\ Len(CallsOf(e, "typing")) = 1 /\ ~CallsOf(e, "typing")[1].accepted
        /\ Len(SendsAt(e, "main")) = 1 /\ SendsAt(e, "main")[1].raised
        /\ Len(SendsAt(e, "fallback")) = 1 /\ SendsAt(e, "fallback")[1].accepted
        /\ responses[e] = ProcessingAck

\* C2: an event whose event_type is none of the five kinds (event_id present) is
\* acknowledged with success as "not handled", and causes no outbound call.
C2_UnknownTypeAcknowledged ==
    \A e \in Received :
        (/\ EventOf(e).event_type \notin EventType
         /\ EventOf(e).event_id \notin {Missing, WrongShape})
        => /\ responses[e] = ActionResponse(<<"Event type not handled">>)
           /\ calls[e] = <<>>

\* the text of request e is absent, empty, or whitespace only
NoText(e) ==
    \/ IsNone(MessageOf(e).text)
    \/ \A i \in 1..Len(Get(MessageOf(e).text)) : Get(MessageOf(e).text)[i] \in Whitespace

\* C3: a message event whose text is empty, null or whitespace-only causes no
\* typing indicator, no classification, no AI call and no sendText.
C3_NoTextNoCalls ==
    \A e \in Received :
        (IsMessageEvent(e) /\ NoText(e)) =>
            /\ calls[e] = <<>>
            /\ pm[e].intent = ""

\* C4: with a webhook secret configured, a request whose signature does not match
\* its payload gets an error response and no background task.
C4_BadSignatureRejected ==
    \A e \in Received :
        (/\ telex_webhook_secret # ""
         /\ ~validate_webhook_signature(telex_webhook_secret, requests[e].body,
                                        requests[e].signature))
        => /\ ~responses[e].success
           /\ background_tasks[e] = <<>>

\* the one call of a kind, when there is exactly one
Only(seq) == seq[1]

\* C5: a main sendText that fails is followed by exactly one fallback sendText,
\* carrying the apology to the same chat_id with reply_to_message_id the original
\* message_id; after the fallback, failed or not, the sequence is over; no event
\* has more than two sendText attempts.
C5_OneFallbackAfterFailedSend ==
    \A e \in Received :
        LET mains == SendsAt(e, "main")
            fallbacks == SendsAt(e, "fallback")
        IN /\ Len(mains) <= 1
           /\ Len(fallbacks) <= 1
           /\ Len(CallsOf(e, "sendText")) <= 2
           /\ (Len(mains) = 1 /\ Only(mains).raised) =>
                 \/ pm[e].pc = "fallback" /\ fallbacks = <<>>
                 \/ /\ pm[e].pc = "done"
                    /\ Len(fallbacks) = 1
                    /\ calls[e][Len(calls[e])] = Only(fallbacks)
                    /\ Only(fallbacks).text = FallbackApology
                    /\ Only(fallbacks).chat_id = MessageOf(e).chat_id
                    /\ Only(fallbacks).reply_to = MessageOf(e).message_id
           /\ (Len(fallbacks) = 1) => pm[e].pc = "done"

\* C5 witness: the main send failed, the fallback failed too, and the task ended
C5_Witness ==
    \E e \in Received :
        /\ pm[e].pc = "done"
        /\ Len(SendsAt(e, "main")) = 1 /\ Only(SendsAt(e, "main")).raised
        /\ Len(SendsAt(e, "fallback")) = 1 /\ Only(SendsAt(e, "fallback")).raised
        /\ Len(CallsOf(e, "sendText")) = 2

\* the context of the request in flight at /agent/ask is absent
WithoutContext == IsNone(AskContext(Get(ask)))

C7_MainSendCarriesAgentReturn ==
    \A e \in Received :
        LET ais == CallsOf(e, "ai")
            mains == SendsAt(e, "main")
            fallbacks == SendsAt(e, "fallback")
        IN (Len(ais) >= 1) =>
            /\ Len(ais) = 1
            /\ pm[e].intent = "General"
            /\ ~Only(ais).raised
            /\ (Only(ais).detail = "answer" => Only(ais).text = ProviderAnswer)
            /\ (Only(ais).detail = "raise" => Only(ais).text = AgentApology)
            /\ (Len(mains) = 1 => Only(mains).text = Only(ais).text)
            /\ (pm[e].pc = "send" => pm[e].response_text = Only(ais).text)
            /\ (pm[e].pc \in {"fallback", "done"} => Len(mains) = 1)
            /\ (pm[e].pc = "fallback" \/ Len(fallbacks) = 1) => Only(mains).raised

\* C7 witness: the provider call raised and the agent's apology reached the chat
\* as the main reply, with no fallback
C7_Witness ==
    \E e \in Received :
        /\ pm[e].pc = "done"
        /\ Len(CallsOf(e, "ai")) = 1 /\ Only(CallsOf(e, "ai")).detail = "raise"
        /\ Len(SendsAt(e, "main")) = 1
        /\ Only(SendsAt(e, "main")).text = AgentApology
        /\ Only(SendsAt(e, "main")).accepted
        /\ SendsAt(e, "fallback") = <<>>

\* C8: whatever the typing indicator call did, it raised nothing, and the
\* sequence went on: it is at reply resolution, waiting for the AI provider or
\* at the main send, or the message was classified and the main sendText has
\* been attempted.
C8_TypingFailureNeverAborts ==
    \A e \in Received :
        LET typings == CallsOf(e, "typing") IN
        (Len(typings) >= 1) =>
            /\ Len(typings) = 1
            /\ ~Only(typings).raised
            /\ \/ pm[e].pc = "resolve"
               \/ pm[e].pc = "awaiting_agent_run"
               \/ pm[e].pc = "send" /\ pm[e].intent # ""
               \/ pm[e].intent # "" /\ Len(SendsAt(e, "main")) = 1

\* C8 witness: the typing indicator failed and the main reply was still delivered
C8_Witness ==
    \E e \in Received :
        /\ Len(CallsOf(e, "typing")) = 1
        /\ ~Only(CallsOf(e, "typing")).accepted
        /\ Len(SendsAt(e, "main")) = 1
        /\ Only(SendsAt(e, "main")).accepted
        /\ pm[e].pc = "done"

\* C9: process_message lets no exception out, whichever of its steps fail, and
\* the response already returned for the request is still the one the route gave.
C9_BackgroundFailuresContained ==
    \A e \in Received :
        /\ pm[e].pc # "raised"
        /\ e <= Len(responses)
        /\ responses[e] = Route(requests[e]).response

\* C9 witness: the agent could not be constructed, the fallback send failed as
\* well, and the task ended normally with the acknowledgment in place
C9_Witness ==
    \E e \in Received :
        /\ pm[e].pc = "done"
        /\ IsNone(agent_instance)
        /\ Len(calls[e]) = 1
        /\ Len(SendsAt(e, "fallback")) = 1
        /\ Only(SendsAt(e, "fallback")).raised
        /\ ~Only(SendsAt(e, "fallback")).accepted
        /\ responses[e] = ProcessingAck

\* C10: for one event at most one message reaches the chat: never both the main
\* reply and the fallback apology.
C10_NeverBothReplies ==
    \A e \in Received :
        ~(\E i, j \in 1..Len(chat) :
            /\ chat[i].ev = e /\ chat[i].site = "main"
            /\ chat[j].ev = e /\ chat[j].site = "fallback")

\* C11: a parsed event that is not a MESSAGE carrying a message (the four other
\* kinds, with or without a message, and a MESSAGE whose message is null) is
\* acknowledged with success, gets no background task and causes no typing, AI
\* or delivery call.
C11_OtherEventsOnlyAcknowledged ==
    \A e \in Received :
        (ValidWebhookEvent(EventOf(e)) /\ ~IsMessageEvent(e)) =>
            /\ responses[e].status = 200
            /\ responses[e].success
            /\ responses[e].message =
                 IF EventOf(e).event_type = "message"
                 THEN <<"Event type not handled">>
                 ELSE <<"Event ", EventOf(e).event_type, " acknowledged">>
            /\ background_tasks[e] = <<>>
            /\ pm[e].pc = "none"
            /\ calls[e] = <<>>
            /\ \A i \in 1..Len(chat) : chat[i].ev # e

\* C11 witness: a message.read event that carries a message with a question was
\* acknowledged and nothing was scheduled for it
C11_Witness ==
    \E e \in Received :
        /\ EventOf(e).event_type = "message.read"
        /\ ~IsNone(EventOf(e).message)
        /\ MessageOf(e).text = TxtQuestion
        /\ responses[e] = ActionResponse(<<"Event ", "message.read", " acknowledged">>)
        /\ background_tasks[e] = <<>>

(***************************************************************************)
(* The classification of a message text (webhook.py:91-124), on its own:   *)
(* texts over a small alphabet, and every trigger word decorated.          *)
(***************************************************************************)
\* longest text over TextAlphabet
MaxTextLen == 3

TextAlphabet == {"h", "i", "H", "I", " "}

RECURSIVE TextsUpTo(_)
TextsUpTo(n) ==
    IF n = 0 THEN {<<>>}
    ELSE LET shorter == TextsUpTo(n - 1)
         IN  shorter \cup {Append(t, c) : t \in {s \in shorter : Len(s) = n - 1},
                                          c \in TextAlphabet}

UpperChar(c) ==
    CASE c = "a" -> "A" [] c = "c" -> "C" [] c = "d" -> "D" [] c = "e" -> "E"
      [] c = "g" -> "G" [] c = "h" -> "H" [] c = "i" -> "I" [] c = "l" -> "L"
      [] c = "n" -> "N" [] c = "o" -> "O" [] c = "p" -> "P" [] c = "r" -> "R"
      [] c = "s" -> "S" [] c = "t" -> "T" [] c = "u" -> "U" [] c = "w" -> "W"
      [] c = "y" -> "Y"
      [] OTHER -> c

Upper(s) == [i \in 1..Len(s) |-> UpperChar(s[i])]
Capitalize(s) == [i \in 1..Len(s) |-> IF i = 1 THEN UpperChar(s[i]) ELSE s[i]]

\* a trigger word as users type it, and texts that only contain it
Decorated(w) ==
    { w, Upper(w), Capitalize(w),
      <<" ">> \o w, w \o <<"\n">>, <<"\t", " ">> \o Upper(w) \o <<" ">>,
      w \o <<"!">>, w \o <<" ", "p", "l", "s">>, <<"o", "h", " ">> \o w,
      SubSeq(w, 1, Len(w) - 1), w \o w }

IncomingTexts ==
    TextsUpTo(MaxTextLen) \cup UNION {Decorated(w) : w \in GreetingTriggers \cup HelpTriggers}

InitClassify ==
    /\ telex_webhook_secret = ""
    /\ app = "started"
    /\ agent_instance = Some(Instance("YorubaAgent", 1))
    /\ telex_service = Some(Instance("TelexService", 1))
    /\ requests = <<>>
    /\ responses = <<>>
    /\ background_tasks = <<>>
    /\ pm = <<>>
    /\ calls = <<>>
    /\ chat = <<>>
    /\ ask = None
    /\ answer = None
    /\ incoming_text \in {Some(t) : t \in IncomingTexts}
    /\ branch = None
    /\ signature_call = None
    /\ valid = None
    /\ accessor_log = NoAccess
    /\ broadcast = None

\* process_message up to its choice of a branch: an empty text returns before it
ClassifyMessage ==
    /\ IsNone(branch)
    /\ ~IsNone(incoming_text)
    /\ Get(incoming_text) # <<>>
    /\ branch' = Some(Classify(Strip(Get(incoming_text))))
    /\ UNCHANGED <<telex_webhook_secret, app, agent_instance, telex_service, requests,
                   responses, background_tasks, pm, calls, chat, ask, answer,
                   incoming_text, signature_call, valid, broadcast, accessor_log>>

NextClassify == ClassifyMessage

SpecClassify == InitClassify /\ [][NextClassify]_vars

\* C12: the branch is a function of the text after trim and lower-casing alone:
\* Greeting exactly for the five greeting words, Help exactly for the three
\* help phrases, General for every other non-empty text; a text that only
\* starts with or contains a trigger is General.
C12_ClassificationIsExactMatch ==
    ~IsNone(branch) =>
        LET t == Lower(Strip(Get(incoming_text)))
        IN  /\ Get(incoming_text) # <<>>
            /\ Get(branch) \in {"Greeting", "Help", "General"}
            /\ Get(branch) = "Greeting" <=> t \in GreetingTriggers
            /\ Get(branch) = "Help" <=> t \in HelpTriggers
            /\ Get(branch) = "General" <=> t \notin GreetingTriggers \cup HelpTriggers

\* C12 witness: "Help pls" (a help phrase followed by other words) was
\* classified General
C12_Witness ==
    /\ incoming_text = Some(<<"h", "e", "l", "p", " ", "p", "l", "s">>)
    /\ branch = Some("General")

\* C13: for a message whose text is a greeting (resp. help) trigger, the finished
\* background sequence made no AI call, requested typing for the message's
\* chat_id, and then sent the fixed greeting (resp. help) text to that chat_id
\* with reply_to_message_id the original message_id.
C13_CannedReplyWithoutAi ==
    \A e \in Received :
        (/\ IsMessageEvent(e)
         /\ ~NoText(e)
         /\ Classify(MessageTextOf(e)) \in {"Greeting", "Help"}
         /\ pm[e].pc = "done") =>
            /\ CallsOf(e, "ai") = <<>>
            /\ Len(calls[e]) >= 2
            /\ calls[e][1].op = "typing"
            /\ calls[e][1].chat_id = MessageOf(e).chat_id
            /\ calls[e][2].op = "sendText"
            /\ calls[e][2].site = "main"
            /\ calls[e][2].chat_id = MessageOf(e).chat_id
            /\ calls[e][2].reply_to = MessageOf(e).message_id
            /\ calls[e][2].text = IF Classify(MessageTextOf(e)) = "Greeting"
                                  THEN GreetingText ELSE HelpText

\* the steps of the background sequence of request e
Step(e) ==
    \/ Start(e)
    \/ \E outcome \in TypingOutcomes : Typing(e, outcome)
    \/ Resolve(e)
    \/ AwaitAgentRun(e)
    \/ \E outcome \in SendOutcomes : Send(e, outcome)
    \/ \E outcome \in SendOutcomes : Fallback(e, outcome)

Terminal(e) == pm[e].pc \in {"none", "done"}

\* C14: every outbound call is bounded by a timeout, so a background sequence
\* that has not reached a terminal state can always take its next step: none
\* waits for a provider that never responds.
C14_NoSequenceWaitsForever ==
    \A e \in Received : ~Terminal(e) => ENABLED Step(e)

\* C15: a payload that fails structural validation (event_id or event_type
\* missing or of the wrong shape) is answered with an HTTP error whose body is the
\* structured error (error, message, details, timestamp); it gets no success
\* acknowledgment and no background processing.
C15_MalformedGetsStructuredError ==
    \A e \in Received :
        ~ValidWebhookEvent(EventOf(e)) =>
            /\ responses[e].status >= 400
            /\ ~responses[e].success
            /\ responses[e].error = "ValidationError"
            /\ responses[e].message = <<"Request validation failed">>
            /\ background_tasks[e] = <<>>
            /\ calls[e] = <<>>

(***************************************************************************)
(* validate_webhook_signature (telex_service.py:105-135), on its own.      *)
(***************************************************************************)
SignatureSecrets == {"", SenderSecret, "k2"}
SignedPayloads ==
    { Event("E1", "user.joined", None), Event("E2", "user.joined", None),
      Event("E1", "message", Some(Message("C1", Ade, TxtHi))) }
Signatures ==
    { HmacSha256(k, p) : k \in {SenderSecret, "k2", "guess"}, p \in SignedPayloads }
    \cup {SigNone, SigNonAscii, SigEmpty}

InitSignature ==
    /\ telex_webhook_secret \in SignatureSecrets
    /\ app = "started"
    /\ agent_instance = Some(Instance("YorubaAgent", 1))
    /\ telex_service = Some(Instance("TelexService", 1))
    /\ requests = <<>>
    /\ responses = <<>>
    /\ background_tasks = <<>>
    /\ pm = <<>>
    /\ calls = <<>>
    /\ chat = <<>>
    /\ ask = None
    /\ answer = None
    /\ incoming_text = None
    /\ branch = None
    /\ signature_call \in {Some([payload |-> p, signature |-> g]) :
                             p \in SignedPayloads, g \in Signatures}
    /\ valid = None
    /\ accessor_log = NoAccess
    /\ broadcast = None

\* one call of telex_service.validate_webhook_signature(payload, signature)
ValidateSignature ==
    /\ IsNone(valid)
    /\ ~IsNone(signature_call)
    /\ valid' = Some(validate_webhook_signature(telex_webhook_secret,
                                                Get(signature_call).payload,
                                                Get(signature_call).signature))
    /\ UNCHANGED <<telex_webhook_secret, app, agent_instance, telex_service, requests,
                   responses, background_tasks, pm, calls, chat, ask, answer,
                   incoming_text, branch, signature_call, broadcast, accessor_log>>

NextSignature == ValidateSignature

SpecSignature == InitSignature /\ [][NextSignature]_vars

\* C16: without a configured secret every payload and signature validates; with
\* a secret the result is true exactly when the signature is the keyed hash of
\* the payload under that secret, so another payload, another key, an empty
\* signature, or a signature on which the comparison fails all give false; the
\* call always returns a boolean.
C16_SignatureValidation ==
    ~IsNone(valid) =>
        LET payload == Get(signature_call).payload
            signature == Get(signature_call).signature
        IN  /\ Get(valid) \in BOOLEAN
            /\ telex_webhook_secret = "" => Get(valid)
            /\ telex_webhook_secret # "" =>
                 /\ Get(valid) <=> signature = <<telex_webhook_secret, payload>>
                 /\ signature \in {SigNone, SigNonAscii, SigEmpty} => ~Get(valid)
                 /\ \A p \in SignedPayloads \ {payload} :
                        signature = <<telex_webhook_secret, p>> => ~Get(valid)

\* C16 witness: no secret is configured and a signature on which the comparison
\* would raise was validated as true
C16_Witness ==
    /\ telex_webhook_secret = ""
    /\ ~IsNone(signature_call)
    /\ Get(signature_call).signature = SigNone
    /\ valid = Some(TRUE)

\* the prompts of the AI calls made for request e
PromptsOf(e) == {calls[e][i].prompt : i \in {j \in 1..Len(calls[e]) : calls[e][j].op = "ai"}}

\* the display name of the sender of request e when "present" means "not null"
NameIfPresent(e) ==
    LET user == MessageOf(e).from_user
    IN  IF user.first_name # NoStr THEN user.first_name
        ELSE IF user.username # NoStr THEN user.username
        ELSE "friend"

\* the display name when "present" means "neither null nor empty"
NameIfNonEmpty(e) ==
    LET user == MessageOf(e).from_user
    IN  IF user.first_name \notin {NoStr, ""} THEN user.first_name
        ELSE IF user.username \notin {NoStr, ""} THEN user.username
        ELSE "friend"

MaxConcurrentEvents == 2

\* two messages of the same chat that need no AI call
ConcurrentRequests ==
    { [body |-> b, signature |-> Signed(b)] :
        b \in { Event("E1", "message", Some(Message("C1", Ade, TxtHi))),
               Event("E2", "message",
                     Some([Message("C1", Ade, TxtWhatCanYouDo) EXCEPT !.message_id = "M2"])) } }

\* what the messaging provider does in these runs: it answers, or it cannot be reached
ConcurrentTypingOutcomes == {"ok"}
ConcurrentSendOutcomes == {"ok", "network_error"}

InitConcurrent ==
    /\ Init
    /\ telex_webhook_secret = ""

PostConcurrent(req) ==
    /\ Len(requests) < MaxConcurrentEvents
    /\ Receive(req)

NextConcurrent ==
    \/ Lifespan
    \/ \E req \in ConcurrentRequests : PostConcurrent(req)
    \/ \E e \in Received : Start(e)
    \/ \E e \in Received, outcome \in ConcurrentTypingOutcomes : Typing(e, outcome)
    \/ \E e \in Received : Resolve(e)
    \/ \E e \in Received, outcome \in ConcurrentSendOutcomes : Send(e, outcome)
    \/ \E e \in Received, outcome \in ConcurrentSendOutcomes : Fallback(e, outcome)

SpecConcurrent == InitConcurrent /\ [][NextConcurrent]_vars

\* C18: under every interleaving of the lifespan, the handlers and the
\* background tasks, each of the two handles was constructed at most once, every
\* accessor call returned the instance the module-level variable holds, and a
\* handle that was set is still that instance.
C18_HandlesAreSingletons ==
    /\ accessor_log.built_agent <= 1
    /\ accessor_log.built_telex <= 1
    /\ accessor_log.got_agent \subseteq {agent_instance[i] : i \in 1..Len(agent_instance)}
    /\ accessor_log.got_telex \subseteq {telex_service[i] : i \in 1..Len(telex_service)}
    /\ ~IsNone(agent_instance) => agent_instance = Some(Instance("YorubaAgent", 1))
    /\ ~IsNone(telex_service) => telex_service = Some(Instance("TelexService", 1))

\* C18 witness: without a lifespan run, the first task failed to build the agent
\* and built the messaging handle in its exception handler; the second task
\* built the agent and got the same messaging handle; both tasks are done
C18_Witness ==
    /\ app = "init"
    /\ Len(requests) = 2
    /\ pm[1].pc = "done" /\ pm[2].pc = "done"
    /\ SendsAt(1, "main") = <<>> /\ Len(SendsAt(1, "fallback")) = 1
    /\ Len(SendsAt(2, "main")) = 1
    /\ accessor_log = [built_agent |-> 1, built_telex |-> 1,
                       got_agent |-> {Instance("YorubaAgent", 1)},
                       got_telex |-> {Instance("TelexService", 1)}]

\* C19: among the calls made for one message, typing is attempted at most once
\* and precedes every AI call and every sendText; the AI provider is called at
\* most once and before the main sendText; a fallback sendText comes only
\* after a call that failed later than the typing step.
C19_OrderWithinSequence ==
    \A e \in Received :
        LET cs == calls[e]
            At(op) == {i \in 1..Len(cs) : cs[i].op = op}
            Mains == {i \in At("sendText") : cs[i].site = "main"}
            Fallbacks == {i \in At("sendText") : cs[i].site = "fallback"}
        IN  /\ Cardinality(At("typing")) <= 1
            /\ \A i \in At("ai") \cup At("sendText") : \E t \in At("typing") : t < i
            /\ Cardinality(At("ai")) <= 1
            /\ \A a \in At("ai"), m \in Mains : a < m
            /\ \A f \in Fallbacks :
                  \E t \in At("typing"), k \in 1..Len(cs) : t < k /\ k < f /\ cs[k].raised

\* C20: nothing orders the background sequences of two messages of the same
\* chat: while both are unfinished each of them can take its next step, whatever
\* the other has done, so the later message's reply can be delivered first.
C20_NoOrderAcrossEvents ==
    \A a, b \in Received :
        (/\ a < b
         /\ IsMessageEvent(a) /\ IsMessageEvent(b)
         /\ ChatIdOf(a) = ChatIdOf(b)
         /\ ~Terminal(a) /\ ~Terminal(b)) =>
            /\ responses[a] = ProcessingAck
            /\ responses[b] = ProcessingAck
            /\ ENABLED Step(a)
            /\ ENABLED Step(b)

\* C20 witness: A then B were received and acknowledged for chat C1, and the
\* chat shows the reply to B before the reply to A
C20_Witness ==
    /\ Len(requests) = 2
    /\ EventOf(1).event_id = "E1" /\ EventOf(2).event_id = "E2"
    /\ responses = <<ProcessingAck, ProcessingAck>>
    /\ Len(chat) = 2
    /\ chat[1] = [ev |-> 2, site |-> "main", chat_id |-> "C1", text |-> HelpText,
                  reply_to |-> "M2"]
    /\ chat[2] = [ev |-> 1, site |-> "main", chat_id |-> "C1", text |-> GreetingText,
                  reply_to |-> "M1"]

(***************************************************************************)
(* The same event delivered more than once (an at-least-once sender).      *)
(***************************************************************************)
\* number of deliveries of the one event
MaxDeliveries == 2

\* the one event: a question from Ade in chat C1
RedeliveredRequests ==
    { [body |-> b, signature |-> Signed(b)] :
        b \in { Event("E1", "message", Some(Message("C1", Ade, TxtQuestion))) } }

\* what the two providers do in these runs
RedeliveryTypingOutcomes == {"ok"}
RedeliverySendOutcomes == {"ok", "network_error"}

InitRedelivery ==
    /\ Init
    /\ telex_webhook_secret = ""

PostAgain(req) ==
    /\ Len(requests) < MaxDeliveries
    /\ Receive(req)

NextRedelivery ==
    \/ Lifespan
    \/ \E req \in RedeliveredRequests : PostAgain(req)
    \/ \E e \in Received : Start(e)
    \/ \E e \in Received, outcome \in RedeliveryTypingOutcomes : Typing(e, outcome)
    \/ \E e \in Received : Resolve(e)
    \/ \E e \in Received : AwaitAgentRun(e)
    \/ \E e \in Received, outcome \in RedeliverySendOutcomes : Send(e, outcome)
    \/ \E e \in Received, outcome \in RedeliverySendOutcomes : Fallback(e, outcome)

SpecRedelivery == InitRedelivery /\ [][NextRedelivery]_vars

\* the event of request b was already delivered as an earlier request
Redelivered(b) ==
    \E a \in 1..(b - 1) :
        /\ EventOf(a).event_id = EventOf(b).event_id
        /\ MessageOf(a).message_id = MessageOf(b).message_id

\* C21: a delivery of a MESSAGE event with non-empty text whose event_id and
\* message_id were delivered before is treated like the first one: it is
\* acknowledged, gets its own background task, can always start it, and once
\* its sequence has resolved the reply it has made its own AI call, and once
\* it has ended after typing it has attempted its own main reply.
C21_RedeliveryProcessedAgain ==
    \A b \in Received :
        (IsMessageEvent(b) /\ ~NoText(b) /\ Redelivered(b)) =>
            /\ responses[b] = ProcessingAck
            /\ background_tasks[b] = <<"process_message">>
            /\ pm[b].pc = "scheduled" => ENABLED Start(b)
            /\ pm[b].pc \in {"send", "done"} /\ pm[b].intent = "General" =>
                  Len(CallsOf(b, "ai")) = 1
            /\ pm[b].pc = "done" /\ pm[b].intent = "General" =>
                  Len(SendsAt(b, "main")) = 1

\* C21 witness: the event was delivered twice, the AI provider was called once
\* for each delivery with the same prompt, and the chat holds two replies to M1
C21_Witness ==
    /\ Len(requests) = 2
    /\ requests[1] = requests[2]
    /\ Len(CallsOf(1, "ai")) = 1 /\ Len(CallsOf(2, "ai")) = 1
    /\ Only(CallsOf(1, "ai")).prompt = Only(CallsOf(2, "ai")).prompt
    /\ Len(chat) = 2
    /\ chat[1].site = "main" /\ chat[2].site = "main"
    /\ chat[1].reply_to = "M1" /\ chat[2].reply_to = "M1"
    /\ {chat[1].ev, chat[2].ev} = {1, 2}

(***************************************************************************)
(* messages.py: broadcast_message (POST /messages/broadcast).              *)
(***************************************************************************)
\* longest chat_ids list
MaxChats == 2

ChatIds == {"C1", "C2", "C3"}

RECURSIVE ChatListsUpTo(_)
ChatListsUpTo(n) ==
    IF n = 0 THEN {<<>>}
    ELSE LET shorter == ChatListsUpTo(n - 1)
         IN  shorter \cup {Append(l, c) : l \in {k \in shorter : Len(k) = n - 1},
                                          c \in ChatIds}

BroadcastText == "E ku ojo meta"

\* the request as the route receives it: nothing done yet
BroadcastRequest(chat_ids) ==
    [chat_ids |-> chat_ids, pc |-> "start", next |-> 1, results |-> <<>>,
     errors |-> <<>>, sends |-> <<>>, response |-> None]

InitBroadcast ==
    /\ telex_webhook_secret = ""
    /\ app = "started"
    /\ agent_instance = Some(Instance("YorubaAgent", 1))
    /\ telex_service = Some(Instance("TelexService", 1))
    /\ requests = <<>>
    /\ responses = <<>>
    /\ background_tasks = <<>>
    /\ pm = <<>>
    /\ calls = <<>>
    /\ chat = <<>>
    /\ ask = None
    /\ answer = None
    /\ incoming_text = None
    /\ branch = None
    /\ signature_call = None
    /\ valid = None
    /\ accessor_log = NoAccess
    /\ broadcast \in {Some(BroadcastRequest(l)) : l \in ChatListsUpTo(MaxChats)}

OtherThanBroadcast ==
    <<telex_webhook_secret, app, agent_instance, requests, responses, background_tasks,
      pm, calls, chat, ask, answer, incoming_text, branch, signature_call, valid>>

\* lines 52-56: the handle and the two empty lists
BroadcastBegin ==
    /\ ~IsNone(broadcast)
    /\ Get(broadcast).pc = "start"
    /\ TelexHandle
    /\ broadcast' = Some([Get(broadcast) EXCEPT !.pc = "loop"])
    /\ UNCHANGED OtherThanBroadcast

\* the loop leaving at the first send that raises
BroadcastSendAborting(outcome) ==
    /\ ~IsNone(broadcast)
    /\ Get(broadcast).pc = "loop"
    /\ Get(broadcast).next <= Len(Get(broadcast).chat_ids)
    /\ LET b == Get(broadcast)
           chat_id == b.chat_ids[b.next]
           call == SendTextCall("broadcast", chat_id, BroadcastText, NoStr, outcome)
       IN broadcast' = Some(
            IF SendRaises(outcome)
            THEN [b EXCEPT !.sends = Append(@, call), !.errors = Append(@, chat_id),
                           !.next = Len(b.chat_ids) + 1]
            ELSE [b EXCEPT !.sends = Append(@, call), !.results = Append(@, chat_id),
                           !.next = @ + 1])
    /\ UNCHANGED <<OtherThanBroadcast, telex_service, accessor_log>>

\* lines 58-64: one turn of the loop: the send to the next chat_id, recorded in
\* results when it returned and in errors when it raised
BroadcastSend(outcome) ==
    /\ ~IsNone(broadcast)
    /\ Get(broadcast).pc = "loop"
    /\ Get(broadcast).next <= Len(Get(broadcast).chat_ids)
    /\ LET b == Get(broadcast)
           chat_id == b.chat_ids[b.next]
           call == SendTextCall("broadcast", chat_id, BroadcastText, NoStr, outcome)
       IN broadcast' = Some(
            IF SendRaises(outcome)
            THEN [b EXCEPT !.sends = Append(@, call), !.errors = Append(@, chat_id),
                           !.next = @ + 1]
            ELSE [b EXCEPT !.sends = Append(@, call), !.results = Append(@, chat_id),
                           !.next = @ + 1])
    /\ UNCHANGED <<OtherThanBroadcast, telex_service, accessor_log>>

\* lines 66-74: the response, after the last turn
BroadcastReturn ==
    /\ ~IsNone(broadcast)
    /\ Get(broadcast).pc = "loop"
    /\ Get(broadcast).next > Len(Get(broadcast).chat_ids)
    /\ LET b == Get(broadcast)
       IN broadcast' = Some([b EXCEPT
            !.pc = "returned",
            !.response = Some([status |-> 200,
                               success |-> Len(b.errors) = 0,
                               message |-> <<"Broadcast completed: ", Len(b.results),
                                             " successful, ", Len(b.errors), " failed">>,
                               successful |-> b.results,
                               failed |-> b.errors,
                               total |-> Len(b.chat_ids)])])
    /\ UNCHANGED <<OtherThanBroadcast, telex_service, accessor_log>>

NextBroadcast ==
    \/ BroadcastBegin
    \/ \E outcome \in SendOutcomes : BroadcastSend(outcome)
    \/ BroadcastReturn

SpecBroadcast == InitBroadcast /\ [][NextBroadcast]_vars

\* how many entries of a list are c
Count(list, c) == Cardinality({i \in 1..Len(list) : list[i] = c})

\* the chat ids of the sends that raised (or did not), in the order of the sends
ChatIdsOfSends(sends, raised) ==
    LET chosen == SelectSeq(sends, LAMBDA call : call.raised = raised)
    IN  [i \in 1..Len(chosen) |-> chosen[i].chat_id]

====
